---- MODULE Spec2Model ----
(***************************************************************************)
(* A model of the copilot-api gateway (python-port): the admission gate    *)
(* (lib/rate_limit.py, lib/approval.py), the request handlers of the       *)
(* three upstream routes, the stream relay, the session-token refresher   *)
(* and the identity-token set-up (lib/token.py).                           *)
(*                                                                         *)
(* The program runs on one asyncio event loop: the code between two        *)
(* awaits is one atomic step, so every action below runs a coroutine from  *)
(* one suspension point to the next.                                       *)
(*                                                                         *)
(* Time is integer seconds.  The specifications share the variables:       *)
(*   Spec         the admission gate and the request handlers              *)
(*   SpecWait     the gate in wait mode, with a fair clock and timers      *)
(*   SpecRelay    one streaming request: upstream body -> consumer events  *)
(*   SpecRefresh  start-up of the session token and the refresh task       *)
(*   SpecConvert  the two translations of /v1/messages on one input        *)
(*   SpecDevice   setup_github_token and the device-flow poll loop         *)
(*   SpecDeviceFair  the same with a fair clock, timers and provider       *)
(*   SpecStart    the commands run one after another over one token file   *)
(*   SpecBuild    one chat request from the default ceiling to the post    *)
(*   SpecRun      run_server from its token set-up to the serving server   *)
(***************************************************************************)
EXTENDS Integers, Sequences, FiniteSets, TLC

\* ----------------------------------------------------------------- bounds
NumRequests == 2      \* consumer requests in flight at one time
MaxTime     == 2      \* the clock of Spec stops here
MaxInterval == 2      \* largest configured rate_limit_seconds

\* Python's None for the Optional[int] / Optional[float] / Optional[str]
\* fields of State (timestamps and tokens are >= 0).
NONE == -1

VARIABLES
    now,                     \* time.time()
    \* ---- lib/state.py: State
    copilot_token,
    manual_approve,
    rate_limit_wait,
    rate_limit_seconds,
    last_request_timestamp,
    \* ---- the consumer requests in flight (one coroutine each)
    req,
    \* ---- history: the admissions of check_rate_limit (its normal returns)
    last_admitted_at,        \* instant of the latest one, or NONE
    \* ---- one streaming request (SpecRelay)
    relay_route,             \* "chat" or "messages"
    body,                    \* the lines of the upstream SSE body
    received,                \* how many of them have reached the gateway
    conn,                    \* upstream connection: "open", "closed", "failed"
    rpc,                     \* "post", "relay", "closed", "aborted", "error"
    pos,                     \* lines consumed by _stream_response
    sent,                    \* events emitted to the consumer, in order
    seen_done,               \* _stream_response has read the [DONE] sentinel
    \* ---- start-up and the refresh task (SpecRefresh)
    github_token,            \* State.github_token
    spc,                     \* run_server: "off", "setup", "serving", "failed"
    refresh_interval,        \* the closure variable of setup_copilot_token
    task,                    \* the refresh_token task
    exch,                    \* the token exchanges: calls, the one in flight,
                             \* the last completed one (history)
    last_read,               \* the latest copilot_headers call (history)
    \* ---- one non-streaming /v1/messages request (SpecConvert)
    mpc,                     \* handle_messages: "off", "request", "response", "done"
    request,                 \* the consumer's request
    openai_payload,          \* what convert_anthropic_to_openai made of it
    response,                \* the upstream's answer
    anthropic_response,      \* what convert_openai_to_anthropic made of it
    \* ---- setup_github_token and the device flow (SpecDevice)
    gpc,                     \* "off", "boot", "start", "device_code",
                             \* "polling", "sleeping", "writing",
                             \* "storing", "done", "failed"
    token_file,              \* the content of PATHS.github_token_path, or NONE
    device_response,         \* what get_device_code returned
    poll,                    \* poll_access_token: its locals, and history
    \* ---- one /chat/completions request past the gate (SpecBuild)
    bpc,                     \* handle_completion: "off", "ready", "done"
    payload,                 \* the consumer's ChatCompletionsPayload
    models,                  \* State.models: the cached model list
    built                    \* what became of it: the exception raised, or
                             \* the request posted to the upstream

cfgVars == <<copilot_token, manual_approve, rate_limit_wait, rate_limit_seconds>>

gateVars == <<now, cfgVars, last_request_timestamp, req, last_admitted_at>>

\* The gate's variables that start-up and the refresh task never write.
gateVars_noTokenNow ==
    <<manual_approve, rate_limit_wait, rate_limit_seconds,
      last_request_timestamp, req, last_admitted_at>>

relayVars == <<relay_route, body, received, conn, rpc, pos, sent, seen_done>>

refreshVars == <<github_token, spc, refresh_interval, task, exch, last_read>>

convVars == <<mpc, request, openai_payload, response, anthropic_response>>

deviceVars == <<gpc, token_file, device_response, poll>>

buildVars == <<bpc, payload, models, built>>

vars == <<gateVars, relayVars, refreshVars, convVars, deviceVars, buildVars>>

Requests == 1..NumRequests
Routes   == {"chat", "messages", "embeddings"}

\* --------------------------------------------------------------- the gate

\* Mutant of RateLimitOutcome: an early request is refused in both modes.
RateLimitOutcome_RejectInWaitMode(t) ==
    IF rate_limit_seconds = NONE THEN "return"
    ELSE IF /\ last_request_timestamp # NONE
            /\ t - last_request_timestamp < rate_limit_seconds
         THEN "raise"
         ELSE "admit"

\* What check_rate_limit decides at time t, before any suspension.
RateLimitOutcome(t) ==
    IF rate_limit_seconds = NONE THEN "return"
    ELSE IF /\ last_request_timestamp # NONE
            /\ t - last_request_timestamp < rate_limit_seconds
         THEN IF rate_limit_wait THEN "sleep" ELSE "raise"
         ELSE "admit"

\* Mutant of StampOnAdmit: the instant of the store is stored.
StampOnAdmit_AtStore(q) == now

\* The value check_rate_limit stores in last_request_timestamp on its last
\* line: current_time, read before any sleep.
StampOnAdmit(q) == q.current_time

\* Mutant of TokenAfterHandler: a handler step empties the store.
TokenAfterHandler_Cleared == NONE

\* state.copilot_token after a step of a request handler (the gate, the
\* upstream call, the answer): no handler holds an assignment to it.
TokenAfterHandler == copilot_token

\* Mutant of StampOnReject: a rejection stores its own instant.
StampOnReject_Current(q) == q.current_time

\* What last_request_timestamp holds after check_rate_limit has raised
\* RateLimitError: the raise comes before the store of the last line.
StampOnReject(q) == last_request_timestamp

\* History of a request whose admission is still open (it waits for the
\* operator, or the operator said no): stamp_moved says that the store of
\* this request changed last_request_timestamp and that the value it
\* stored is still there.  A store by another request replaces it.
StampedOver(q) ==
    IF q.approval \in {"pending", "no"} THEN [q EXCEPT !.stamp_moved = FALSE]
                                        ELSE q

\* The statuses the upstream may answer with.
UpstreamStatuses == {200, 422, 500}

\* httpx.Response.is_success
is_success(status) == status \in 200..299

\* A response body: its framing and the text it carries.  The upstream's
\* error body is some text the gateway never interprets.
UpstreamBody == [form |-> "raw", text |-> "upstream_body"]
NoResponse   == [status |-> NONE, body |-> [form |-> "none", text |-> ""]]

\* Mutant of forward_error: every failure is answered with status 500.
forward_error_Always500(q, exc) ==
    [status |-> 500, body |-> [form |-> "error_object", text |-> exc]]

\* forward_error: for an HTTPError the upstream status with the upstream
\* text as the "message" of an {"error": {...}} object, for any other
\* exception status 500 with str(error) as the message.
forward_error(q, exc) ==
    IF exc = "HTTPError"
    THEN [status |-> q.upstream_status,
          body |-> [form |-> "error_object", text |-> UpstreamBody.text]]
    ELSE [status |-> 500, body |-> [form |-> "error_object", text |-> exc]]

\* An exception that leaves a handler uncaught: the framework answers
\* 500 "Internal Server Error".
ServerError == [status |-> 500,
                body |-> [form |-> "raw", text |-> "Internal Server Error"]]

\* Mutant of Fail: a non-success upstream answer is tried once more.
Fail_RetryOnce(q, exc) ==
    IF exc = "HTTPError" /\ q.upstream_calls < 2
    THEN [q EXCEPT !.pc = "upstream", !.upstream_calls = @ + 1]
    ELSE [q EXCEPT !.pc = "done", !.result = "raised", !.exc = exc,
                   !.resp = ServerError]

\* An exception leaving the handler.  /embeddings catches everything and
\* answers through forward_error; the other two routes let it propagate.
Fail(q, exc) ==
    [q EXCEPT !.pc = "done",
              !.result = IF q.route = "embeddings" THEN "json_error" ELSE "raised",
              !.exc = exc,
              !.resp = IF q.route = "embeddings" THEN forward_error(q, exc)
                                                 ELSE ServerError]

\* Mutant of CreateCall: the session token is not looked at.
CreateCall_Unchecked(q) ==
    [q EXCEPT !.pc = "upstream", !.upstream_calls = @ + 1]

\* create_chat_completions / create_embeddings up to the await of client.post
CreateCall(q) ==
    IF copilot_token = NONE
    THEN Fail(q, "ValueError")
    ELSE [q EXCEPT !.pc = "upstream", !.upstream_calls = @ + 1]

\* A "no" of the operator: await_approval raises.
ApprovalDenied(q) == Fail([q EXCEPT !.approval = "no"], "Denied")

\* A "yes" of the operator: await_approval returns, the handler goes on.
ApprovalGranted(q) ==
    CreateCall([q EXCEPT !.approval = "yes", !.stamp_moved = FALSE])

\* Mutant of WaitTime: the elapsed time is taken for the remaining one.
WaitTime_Elapsed(t) == t - last_request_timestamp

\* wait_time = rate_limit_seconds - time_since_last
WaitTime(t) == rate_limit_seconds - (t - last_request_timestamp)

\* f"... Wait {wait_time:.1f} seconds.": the number the message carries has
\* one decimal; it is kept as a count of tenths of a second.  (The clock
\* of this model counts whole seconds, which the format prints exactly.)
FormatWait(wait_time) == 10 * wait_time

\* RateLimitError raised by check_rate_limit in reject mode.
RateLimited(q) ==
    Fail([q EXCEPT !.rl = "rejected", !.current_time = NONE,
                   !.reported_wait = FormatWait(WaitTime(q.current_time))],
         "RateLimitError")

\* Mutant of AfterGate: the upstream call is built before the operator is asked.
AfterGate_CallBeforeApproval(q) == CreateCall(q)

\* The handler from the return of check_rate_limit to its next await.
AfterGate(q) ==
    IF manual_approve
    THEN [q EXCEPT !.pc = "approval", !.approval = "pending"]
    ELSE CreateCall([q EXCEPT !.stamp_moved = FALSE])

\* check_rate_limit has returned normally.
Admitted(q) ==
    AfterGate([q EXCEPT !.rl = "returned", !.current_time = NONE, !.wake = NONE])

NewRequest ==
    [pc |-> "idle", route |-> "chat", current_time |-> NONE, wake |-> NONE,
     rl |-> "none", approval |-> "none", upstream_calls |-> 0,
     reported_wait |-> NONE,
     upstream_status |-> NONE, result |-> "none", exc |-> "none",
     resp |-> NoResponse, stamp_moved |-> FALSE]

\* The requests after request r, now q, has stored a value in
\* last_request_timestamp.
Stored(r, q) ==
    [p \in Requests |-> IF p = r THEN q ELSE StampedOver(req[p])]

\* History: check_rate_limit returns normally at instant t.
RecordAdmission(t) == last_admitted_at' = t

\* A consumer request arrives (it takes the first free slot): the handler
\* runs check_rate_limit and goes on to its first await.
Arrive(r) ==
    /\ req[r].pc = "idle"
    /\ \A p \in Requests : p < r => req[p].pc # "idle"
    /\ \E route \in Routes :
         LET q0 == [req[r] EXCEPT !.route = route, !.current_time = now]
             o  == RateLimitOutcome(now)
         IN CASE o = "return" ->
                   /\ req' = [req EXCEPT ![r] = Admitted(q0)]
                   /\ RecordAdmission(now)
                   /\ UNCHANGED last_request_timestamp
              [] o = "admit" ->
                   /\ last_request_timestamp' = StampOnAdmit(q0)
                   /\ req' = Stored(r, Admitted([q0 EXCEPT !.stamp_moved =
                                 StampOnAdmit(q0) # last_request_timestamp]))
                   /\ RecordAdmission(now)
              [] o = "sleep" ->
                   /\ req' = [req EXCEPT ![r] =
                                [q0 EXCEPT !.pc = "sleeping",
                                           !.wake = now + WaitTime(now)]]
                   /\ UNCHANGED <<last_request_timestamp, last_admitted_at>>
              [] o = "raise" ->
                   /\ last_request_timestamp' = StampOnReject(q0)
                   /\ req' = [req EXCEPT ![r] = RateLimited(q0)]
                   /\ UNCHANGED last_admitted_at
    /\ UNCHANGED <<relayVars, refreshVars, convVars, deviceVars, buildVars>>
    /\ copilot_token' = TokenAfterHandler
    /\ UNCHANGED <<now, manual_approve, rate_limit_wait, rate_limit_seconds>>

\* asyncio.sleep(wait_time) is over: check_rate_limit stores the timestamp
\* and returns, the handler goes on to its next await.
WakeUp(r) ==
    /\ req[r].pc = "sleeping"
    /\ now >= req[r].wake
    /\ last_request_timestamp' = StampOnAdmit(req[r])
    /\ req' = Stored(r, Admitted([req[r] EXCEPT !.stamp_moved =
                        StampOnAdmit(req[r]) # last_request_timestamp]))
    /\ RecordAdmission(now)
    /\ UNCHANGED <<relayVars, refreshVars, convVars, deviceVars, buildVars>>
    /\ copilot_token' = TokenAfterHandler
    /\ UNCHANGED <<now, manual_approve, rate_limit_wait, rate_limit_seconds>>

\* The operator answers the prompt of await_approval.
Approve(r) ==
    /\ req[r].pc = "approval"
    /\ \E answer \in BOOLEAN :
         req' = [req EXCEPT ![r] = IF answer THEN ApprovalGranted(req[r])
                                             ELSE ApprovalDenied(req[r])]
    /\ UNCHANGED <<relayVars, refreshVars, convVars, deviceVars, buildVars>>
    /\ copilot_token' = TokenAfterHandler
    /\ UNCHANGED <<now, manual_approve, rate_limit_wait, rate_limit_seconds,
                   last_request_timestamp, last_admitted_at>>

\* client.post returns: a success status gives the response (a stream when
\* payload.stream is set, else a JSON object), any other status raises
\* HTTPError.  EmbeddingRequest has no stream field.
UpstreamRespond(r) ==
    /\ req[r].pc = "upstream"
    /\ \E status \in UpstreamStatuses, stream \in BOOLEAN :
         /\ req[r].route = "embeddings" => ~stream
         /\ LET q == [req[r] EXCEPT !.upstream_status = status] IN
            req' = [req EXCEPT ![r] =
                      IF is_success(status)
                      THEN [q EXCEPT !.pc = "done",
                                     !.result = IF stream THEN "stream"
                                                          ELSE "json",
                                     !.resp = [status |-> 200,
                                               body |-> [form |-> "payload",
                                                         text |-> "upstream_body"]]]
                      ELSE Fail(q, "HTTPError")]
    /\ UNCHANGED <<relayVars, refreshVars, convVars, deviceVars, buildVars>>
    /\ copilot_token' = TokenAfterHandler
    /\ UNCHANGED <<now, manual_approve, rate_limit_wait, rate_limit_seconds,
                   last_request_timestamp, last_admitted_at>>

\* The response has gone to the consumer: the coroutine is over, its slot
\* is free for a later request.
Retire(r) ==
    /\ req[r].pc = "done"
    /\ req' = [req EXCEPT ![r] = NewRequest]
    /\ UNCHANGED <<relayVars, refreshVars, convVars, deviceVars, buildVars>>
    /\ UNCHANGED <<now, cfgVars, last_request_timestamp, last_admitted_at>>

Tick ==
    /\ now < MaxTime
    /\ now' = now + 1
    /\ UNCHANGED <<relayVars, refreshVars, convVars, deviceVars, buildVars>>
    /\ UNCHANGED <<cfgVars, last_request_timestamp, req, last_admitted_at>>

\* No streaming request is followed, no start-up is followed.
RelayOff ==
    /\ relay_route = "chat" /\ body = <<>> /\ received = 0 /\ conn = "closed"
    /\ rpc = "off" /\ pos = 0 /\ sent = <<>> /\ seen_done = FALSE

NoTask == [pc |-> "none", wake |-> NONE, reported |-> FALSE, created |-> 0]

\* calls: get_copilot_token calls issued; since: when the one in flight was
\* issued; token, refresh_in, at: the last completed one; bg_failed: a call
\* of the refresh task has failed.
NoExchange ==
    [calls |-> 0, since |-> NONE, token |-> NONE, refresh_in |-> NONE,
     at |-> NONE, bg_failed |-> FALSE]

\* header: the Authorization value returned; expected: the token of the
\* last completed exchange at that instant; inflight: an exchange was in
\* flight; expired: the stored token's validity had passed; after_failure:
\* a token exchange had failed before.
NoRead == [taken |-> FALSE, header |-> <<"", NONE>>, expected |-> NONE,
           inflight |-> FALSE, expired |-> FALSE, after_failure |-> FALSE]

RefreshOff ==
    /\ github_token = NONE /\ spc = "off" /\ refresh_interval = NONE
    /\ task = NoTask /\ exch = NoExchange /\ last_read = NoRead

\* A dict that is not there (yet).
NoDict == [none |-> TRUE]

ConvertOff ==
    /\ mpc = "off"
    /\ request = NoDict /\ openai_payload = NoDict
    /\ response = NoDict /\ anthropic_response = NoDict

\* poll_access_token before it is entered.  interval and start_time are
\* its locals, wake the end of its sleep, since the instant its request in
\* flight was issued; requests, pendings, slow_downs count the token
\* requests and the answers so far, answered_at and last_answer are the
\* latest answer, token the access token returned (history).  forced is
\* the force argument of setup_github_token, code_requests counts its
\* get_device_code calls.
NoPoll ==
    [interval |-> NONE, start_time |-> NONE, wake |-> NONE, since |-> NONE,
     requests |-> 0, pendings |-> 0, slow_downs |-> 0,
     answered_at |-> NONE, last_answer |-> "none", token |-> NONE,
     error |-> "none", forced |-> FALSE, code_requests |-> 0]

NoDeviceResponse == [interval |-> NONE, expires_in |-> NONE]

DeviceOff ==
    /\ gpc = "off" /\ token_file = NONE
    /\ device_response = NoDeviceResponse /\ poll = NoPoll

\* What create_chat_completions has made of a payload, before it ran.
NotBuilt == [exc |-> "none", sent |-> FALSE, headers |-> NoDict, json |-> NoDict]

BuildOff ==
    /\ bpc = "off" /\ payload = NoDict /\ models = NoDict /\ built = NotBuilt

\* The state run_server leaves before the server accepts requests: the
\* operator's configuration, and a session token (or none, had the store
\* not been populated).
Init ==
    /\ now = 0
    /\ copilot_token \in {NONE, 1}
    /\ manual_approve \in BOOLEAN
    /\ rate_limit_wait \in BOOLEAN
    /\ rate_limit_seconds \in {NONE} \cup (1..MaxInterval)
    /\ last_request_timestamp = NONE
    /\ req = [r \in Requests |-> NewRequest]
    /\ last_admitted_at = NONE
    /\ RelayOff
    /\ RefreshOff
    /\ ConvertOff
    /\ DeviceOff
    /\ BuildOff

Next ==
    \/ \E r \in Requests : Arrive(r)
    \/ \E r \in Requests : WakeUp(r)
    \/ \E r \in Requests : Approve(r)
    \/ \E r \in Requests : UpstreamRespond(r)
    \/ \E r \in Requests : Retire(r)
    \/ Tick

Spec == Init /\ [][Next]_vars

\* ======================================================= claims under Spec

\* C1: with a minimum interval I configured, any two requests that
\* check_rate_limit admits are admitted at instants at least I apart, in
\* reject mode and in wait mode.
C1_AdmissionsSpaced ==
    [][\A r \in Requests :
         (/\ rate_limit_seconds # NONE
          /\ req[r].rl # "returned" /\ req'[r].rl = "returned"
          /\ last_admitted_at # NONE)
         => now - last_admitted_at >= rate_limit_seconds]_vars

\* C2: on every route the upstream call is issued only after
\* check_rate_limit has returned and, with manual_approve set, after the
\* operator answered yes; a rejected or denied request issues none.
C2_UpstreamOnlyAfterGate ==
    \A r \in Requests :
        /\ req[r].upstream_calls > 0 =>
              /\ req[r].rl = "returned"
              /\ manual_approve => req[r].approval = "yes"
        /\ (req[r].rl = "rejected" \/ req[r].approval = "no") =>
              req[r].upstream_calls = 0

\* C2 witness: with approval on and a limit set, one request has reached
\* upstream after the operator's yes while another, rejected by the rate
\* limit or denied by the operator, has issued no call.
C2_Witness ==
    /\ manual_approve
    /\ rate_limit_seconds # NONE
    /\ \E r, p \in Requests :
         /\ req[r].upstream_calls = 1
         /\ req[r].approval = "yes"
         /\ req[p].upstream_calls = 0
         /\ req[p].rl = "rejected" \/ req[p].approval = "no"

\* C11: when the upstream answers a chat-completions, messages or
\* embeddings call with a non-success status, the consumer receives an
\* error response with that upstream status and the upstream body as it
\* is, and the call is not retried.
C11_UpstreamErrorForwarded ==
    \A r \in Requests :
        (req[r].pc = "done" /\ req[r].exc = "HTTPError") =>
            /\ req[r].resp.status = req[r].upstream_status
            /\ req[r].resp.body = UpstreamBody
            /\ req[r].upstream_calls = 1

\* A request is past the admission gate: check_rate_limit has returned
\* and, with manual_approve set, the operator has answered yes.
PassedGate(q) ==
    /\ q.rl = "returned"
    /\ manual_approve => q.approval = "yes"

C13_OnePromptAtATime ==
    Cardinality({r \in Requests : req[r].pc = "approval"}) <= 1

\* C17: in reject mode a request that arrives when the time elapsed since
\* last_request_timestamp is less than rate_limit_seconds fails at once,
\* without suspending, with RateLimitError; the wait time it reports is
\* rate_limit_seconds minus the elapsed time; it changes no timestamp and
\* calls no upstream.
C17_RejectReportsRemaining ==
    /\ [](~rate_limit_wait => \A r \in Requests : req[r].pc # "sleeping")
    /\ [][\A r \in Requests :
           (/\ req[r].pc = "idle" /\ req'[r].pc # "idle"
            /\ ~rate_limit_wait
            /\ rate_limit_seconds # NONE
            /\ last_request_timestamp # NONE
            /\ now - last_request_timestamp < rate_limit_seconds)
           => /\ req'[r].pc = "done"
              /\ req'[r].exc = "RateLimitError"
              /\ req'[r].reported_wait =
                    10 * (rate_limit_seconds - (now - last_request_timestamp))
              /\ req'[r].upstream_calls = 0
              /\ last_request_timestamp' = last_request_timestamp]_vars

\* C17 witness: in reject mode with an interval of two seconds a request
\* that arrived one second after the last admitted one is over with
\* RateLimitError reporting one second (ten tenths) to wait.
C17_Witness ==
    /\ ~rate_limit_wait
    /\ rate_limit_seconds = 2
    /\ \E r \in Requests :
         /\ req[r].pc = "done" /\ req[r].rl = "rejected"
         /\ req[r].exc = "RateLimitError"
         /\ req[r].reported_wait = 10
         /\ req[r].upstream_calls = 0

C28_ReadAndUpdateAtomic ==
    [][\A p \in Requests :
         (req[p].pc = "sleeping" /\ req'[p].rl = "returned")
         => ~(last_admitted_at # NONE
              /\ last_admitted_at > req[p].current_time)]_vars

\* C29: a rejection with RateLimitError leaves last_request_timestamp as
\* it is: in reject mode the timestamp is always the instant of the last
\* request check_rate_limit let through, however many were rejected
\* since, so rejections do not move the next admissible instant.
C29_RejectionsKeepStamp ==
    (rate_limit_seconds # NONE /\ ~rate_limit_wait)
    => last_request_timestamp = last_admitted_at

\* C29 witness: a burst: two requests are over, both rejected by the rate
\* limit, one second after the last admitted one.
C29_Witness ==
    /\ \A r \in Requests : req[r].rl = "rejected"
    /\ last_request_timestamp = 0
    /\ now = 1

\* C30: a request that check_rate_limit let through and the operator then
\* denied leaves last_request_timestamp at the value it had before that
\* request: the value its check stored is not in last_request_timestamp.
C30_DeniedKeepsStamp ==
    \A r \in Requests : req[r].approval = "no" => ~req[r].stamp_moved

\* C31: what check_rate_limit stores on admitting a request is the time
\* at which the check began: for a request admitted at once the instant
\* of its arrival, for one that waited the time captured before the
\* wait, not the instant the wait ended; and the completion of the
\* upstream call stores nothing.
C31_StampIsCheckTime ==
    /\ [][\A r \in Requests :
           (/\ rate_limit_seconds # NONE
            /\ req[r].rl = "none" /\ req'[r].rl = "returned")
           => last_request_timestamp' =
                 IF req[r].pc = "sleeping" THEN req[r].current_time ELSE now]_vars
    /\ [][\A r \in Requests :
           (req[r].pc = "upstream" /\ req'[r].pc = "done")
           => last_request_timestamp' = last_request_timestamp]_vars

\* C31 witness: in wait mode a request has been admitted after its wait,
\* and the stored timestamp is earlier than the instant of that admission.
C31_Witness ==
    /\ rate_limit_wait /\ rate_limit_seconds # NONE
    /\ last_request_timestamp # NONE
    /\ last_request_timestamp < last_admitted_at
    /\ \E r \in Requests : req[r].rl = "returned"

\* C36: no step of a request handler (the admission gate, the upstream
\* call, the answer to the consumer) changes state.github_token or
\* state.copilot_token.
C36_HandlersKeepCredentials ==
    [][copilot_token' = copilot_token /\ github_token' = github_token]_vars

\* C36 witness: with a session token in the store one request has been
\* answered by the upstream and another has failed, and the token is
\* still there.
C36_Witness ==
    /\ copilot_token = 1
    /\ \E r, p \in Requests :
         /\ req[r].pc = "done" /\ req[r].result \in {"json", "stream"}
         /\ req[p].pc = "done" /\ req[p].exc = "HTTPError"

\* C38: with no session token in the store no upstream request is ever
\* issued: a request that has passed the gate fails with ValueError
\* before the HTTP call, on the chat, messages and embeddings routes.
C38_NoCallWithoutToken ==
    copilot_token = NONE =>
        \A r \in Requests :
            /\ req[r].upstream_calls = 0
            /\ req[r].pc # "upstream"
            /\ (req[r].pc = "done" /\ PassedGate(req[r]))
                  => req[r].exc = "ValueError"

\* C38 witness: without a session token a chat request and an embeddings
\* request have passed the gate and have failed with no upstream call.
C38_Witness ==
    /\ copilot_token = NONE
    /\ \E r, p \in Requests :
         /\ req[r].route = "chat" /\ req[p].route = "embeddings"
         /\ req[r].exc = "ValueError" /\ req[p].exc = "ValueError"
         /\ req[r].upstream_calls = 0 /\ req[p].upstream_calls = 0

\* ============================================================= SpecWait
\* The gate in wait mode, with the scheduling the event loop gives: time
\* goes on, and a timer that is due fires.  NumRequests requests arrive, up
\* to MaxTime, and are followed until they have left the gate (the answer
\* of the upstream is not followed); the clock runs on past MaxTime for as
\* long as a request is asleep.

Asleep == {r \in Requests : req[r].pc = "sleeping"}

\* An arrival within the horizon of the model.
ArriveInTime(r) ==
    /\ now <= MaxTime
    /\ Arrive(r)

\* Time goes on beyond MaxTime while the timer of a sleeper is pending.
LateTick ==
    /\ now >= MaxTime
    /\ \E r \in Asleep : req[r].wake > now
    /\ now' = now + 1
    /\ UNCHANGED <<relayVars, refreshVars, convVars, deviceVars, buildVars>>
    /\ UNCHANGED <<cfgVars, last_request_timestamp, req, last_admitted_at>>

InitWait ==
    /\ Init
    /\ rate_limit_wait
    /\ rate_limit_seconds # NONE

NextWait ==
    \/ \E r \in Requests : ArriveInTime(r)
    \/ \E r \in Requests : WakeUp(r)
    \/ \E r \in Requests : Approve(r)
    \/ Tick
    \/ LateTick

SpecWait ==
    /\ InitWait /\ [][NextWait]_vars
    /\ WF_vars(Tick) /\ WF_vars(LateTick)
    /\ \A r \in Requests : WF_vars(WakeUp(r))

\* C18: in wait mode check_rate_limit never raises RateLimitError; a
\* request that arrives before rate_limit_seconds have elapsed since
\* last_request_timestamp is suspended until they have, and is then
\* admitted: every request is eventually admitted.
C18_WaitModeAdmitsAll ==
    /\ [](\A r \in Requests :
            req[r].rl # "rejected" /\ req[r].exc # "RateLimitError")
    /\ [][\A r \in Requests :
           /\ (/\ req[r].pc = "idle" /\ req'[r].pc # "idle"
               /\ last_request_timestamp # NONE
               /\ now - last_request_timestamp < rate_limit_seconds)
              => /\ req'[r].pc = "sleeping"
                 /\ req'[r].wake = last_request_timestamp + rate_limit_seconds
           /\ (req[r].pc = "sleeping" /\ req'[r].pc # "sleeping")
              => /\ now >= req[r].wake
                 /\ req'[r].rl = "returned"]_vars
    /\ \A r \in Requests :
         (req[r].pc = "sleeping") ~> (req[r].rl = "returned")

\* C18 witness: in wait mode with an interval of two seconds the latest
\* admission is the one of a request that was suspended for the whole
\* interval: it happened two seconds after the arrival the request stored
\* as last_request_timestamp.
C18_Witness ==
    /\ rate_limit_wait
    /\ rate_limit_seconds = 2
    /\ last_admitted_at = last_request_timestamp + 2
    /\ \E r \in Requests : req[r].rl = "returned" /\ req[r].upstream_calls = 1

\* ============================================================ SpecRelay
\* One streaming request (payload.stream set) on /chat/completions or
\* /v1/messages, from the await of client.post to the end of generate().

MaxLines == 4         \* longest upstream body, in lines

\* The upstream lines, by what _stream_response and the reshaping make of
\* them.  A data line carries a chunk whose "choices" hold a delta (what
\* the upstream streams), hold a message, or are absent; "bad_json" is a
\* data line json.loads rejects; "other" is a line without the "data: "
\* prefix (a blank separator, a comment, an event: field); "done" is
\* "data: [DONE]".
ChunkKinds == {"chunk_delta", "chunk_message", "chunk_plain"}
LineKinds  == ChunkKinds \cup {"bad_json", "other", "done"}

Bodies == UNION {[1..n -> LineKinds] : n \in 0..MaxLines}

\* line.startswith("data: ")
StartsWithData(kind) == kind # "other"

\* Mutant of IsSentinel: the sentinel is not recognised.
IsSentinel_Never(kind) == FALSE

\* data == "[DONE]"
IsSentinel(kind) == kind = "done"

\* json.loads(data) of line i: the chunk, when the text is JSON.
Parses(kind) == kind \in ChunkKinds
Chunk(i) ==
    CASE body[i] = "chunk_delta" ->
           [id |-> i, choices |-> <<[delta |-> [content |-> "t"]]>>]
      [] body[i] = "chunk_message" ->
           [id |-> i, choices |-> <<[message |-> [content |-> "t"],
                                     finish_reason |-> "stop"]>>]
      [] OTHER -> [id |-> i]

\* Mutant of LineEffect: a data line that is not JSON ends the generator.
LineEffect_BadJsonEnds(i) ==
    IF ~StartsWithData(body[i]) THEN "skip"
    ELSE IF IsSentinel(body[i]) \/ ~Parses(body[i]) THEN "break"
    ELSE "yield"

\* What _stream_response does with line i: "yield", "break" or "skip".
LineEffect(i) ==
    IF ~StartsWithData(body[i]) THEN "skip"
    ELSE IF IsSentinel(body[i]) THEN "break"
    ELSE IF Parses(body[i]) THEN "yield"
    ELSE "skip"

\* The first line after p at which _stream_response yields or breaks, or 0
\* when the lines run out first.
NextStop(p) ==
    LET stops == {j \in (p+1)..Len(body) : LineEffect(j) # "skip"}
    IN IF stops = {} THEN 0
       ELSE CHOOSE j \in stops : \A k \in stops : j <= k

DoneEvent == [type |-> "done", id |-> NONE, form |-> "-"]

\* Python dicts are records; a key may be missing.
Has(d, k) == k \in DOMAIN d

\* d.get(k, default)
Get(d, k, default) == IF k \in DOMAIN d THEN d[k] ELSE default

\* JSON null / Python None where the other values are text.
JsonNull == "null"

\* An exception leaving a function.
Raise(exc) == [raise |-> exc]

\* Mutant of FirstChoice: the last choice is taken.
FirstChoice_Last(openai_response) ==
    openai_response.choices[Len(openai_response.choices)]

\* choice = openai_response["choices"][0]
FirstChoice(openai_response) == openai_response.choices[1]

\* Mutant of StopReason: only a "length" finish is reported as max_tokens.
StopReason_LengthOnly(choice) ==
    IF Get(choice, "finish_reason", JsonNull) = "length" THEN "max_tokens"
                                                         ELSE "end_turn"

\* "end_turn" if choice.get("finish_reason") == "stop" else "max_tokens"
StopReason(choice) ==
    IF Get(choice, "finish_reason", JsonNull) = "stop" THEN "end_turn"
                                                       ELSE "max_tokens"

\* convert_openai_to_anthropic: a dict without "choices" is returned as it
\* is; with them the first choice's ["message"] is read (IndexError for an
\* empty list, KeyError for a choice without "message", as a delta chunk
\* is) and the Anthropic message is built.
convert_openai_to_anthropic(openai_response) ==
    IF ~Has(openai_response, "choices") THEN openai_response
    ELSE IF Len(openai_response.choices) = 0 THEN Raise("IndexError")
    ELSE LET choice == FirstChoice(openai_response) IN
         IF ~Has(choice, "message") THEN Raise("KeyError")
         ELSE LET message == choice.message
                  usage   == Get(openai_response, "usage", <<>>)
              IN [id |-> Get(openai_response, "id", JsonNull),
                  type |-> "message",
                  role |-> "assistant",
                  content |-> <<[type |-> "text",
                                 text |-> Get(message, "content", "")]>>,
                  model |-> Get(openai_response, "model", JsonNull),
                  stop_reason |-> StopReason(choice),
                  stop_sequence |-> JsonNull,
                  usage |-> [input_tokens  |-> Get(usage, "prompt_tokens", 0),
                             output_tokens |-> Get(usage, "completion_tokens", 0)]]

\* The body of generate()'s loop: the consumer event of one upstream chunk
\* (its id, and whether it went out in the upstream's or in Anthropic's
\* form).
ConsumerEvent(route, chunk) ==
    IF route = "messages"
    THEN LET out == convert_openai_to_anthropic(chunk) IN
         IF Has(out, "raise")
         THEN [type |-> "raise", id |-> chunk.id, form |-> out.raise]
         ELSE [type |-> "data", id |-> out.id,
               form |-> IF Has(out, "stop_reason") THEN "anthropic"
                                                   ELSE "openai"]
    ELSE [type |-> "data", id |-> chunk.id, form |-> "openai"]

relayFrame ==
    UNCHANGED <<gateVars, refreshVars, convVars, deviceVars, buildVars,
                relay_route, body>>

\* A line of the body reaches the gateway.
NetRecv ==
    /\ rpc = "post" /\ conn = "open"
    /\ received < Len(body)
    /\ received' = received + 1
    /\ UNCHANGED <<conn, rpc, pos, sent, seen_done>>
    /\ relayFrame

\* The upstream ends the body (with or without having sent the sentinel).
NetEnd ==
    /\ rpc = "post" /\ conn = "open"
    /\ received = Len(body)
    /\ conn' = "closed"
    /\ UNCHANGED <<received, rpc, pos, sent, seen_done>>
    /\ relayFrame

\* The connection breaks before the body is complete.
NetFail ==
    /\ rpc = "post" /\ conn = "open"
    /\ conn' = "failed"
    /\ UNCHANGED <<received, rpc, pos, sent, seen_done>>
    /\ relayFrame

\* await client.post(...) returns: the request was not sent with
\* stream=True, so the response is returned once its body has been read to
\* the end.  The handler wraps generate() in a StreamingResponse.
PostReturn ==
    /\ rpc = "post" /\ conn = "closed"
    /\ rpc' = "relay"
    /\ UNCHANGED <<received, conn, pos, sent, seen_done>>
    /\ relayFrame

\* await client.post(...) raises: the handler ends without a stream.
PostRaise ==
    /\ rpc = "post" /\ conn = "failed"
    /\ rpc' = "error"
    /\ UNCHANGED <<received, conn, pos, sent, seen_done>>
    /\ relayFrame

\* One turn of generate(): _stream_response runs to its next yield, break
\* or end; a chunk is reshaped and emitted, and when the generator is over
\* (sentinel or no more lines) "data: [DONE]" is emitted and the stream
\* closes.  An exception of the reshaping ends the stream.
RelayStep ==
    /\ rpc = "relay"
    /\ LET j == NextStop(pos) IN
       IF j = 0
       THEN /\ pos' = Len(body)
            /\ sent' = Append(sent, DoneEvent)
            /\ rpc' = "closed"
            /\ UNCHANGED seen_done
       ELSE IF LineEffect(j) = "break"
       THEN /\ pos' = j
            /\ seen_done' = TRUE
            /\ sent' = Append(sent, DoneEvent)
            /\ rpc' = "closed"
       ELSE LET ev == ConsumerEvent(relay_route, Chunk(j)) IN
            /\ pos' = j
            /\ UNCHANGED seen_done
            /\ IF ev.type = "raise"
               THEN rpc' = "aborted" /\ UNCHANGED sent
               ELSE sent' = Append(sent, ev) /\ UNCHANGED rpc
    /\ UNCHANGED <<received, conn>>
    /\ relayFrame

InitRelay ==
    /\ now = 0
    /\ copilot_token = 1
    /\ manual_approve = FALSE
    /\ rate_limit_wait = FALSE
    /\ rate_limit_seconds = NONE
    /\ last_request_timestamp = NONE
    /\ req = [r \in Requests |-> NewRequest]
    /\ last_admitted_at = NONE
    /\ relay_route \in {"chat", "messages"}
    /\ body \in Bodies
    /\ received = 0 /\ conn = "open" /\ rpc = "post"
    /\ pos = 0 /\ sent = <<>> /\ seen_done = FALSE
    /\ RefreshOff
    /\ ConvertOff
    /\ DeviceOff
    /\ BuildOff

NextRelay ==
    \/ NetRecv
    \/ NetEnd
    \/ NetFail
    \/ PostReturn
    \/ PostRaise
    \/ RelayStep

SpecRelay == InitRelay /\ [][NextRelay]_vars

\* ================================================== claims under SpecRelay

\* The body is n parseable data events followed by the sentinel.
BodyIsEventsThenDone ==
    /\ Len(body) >= 1
    /\ body[Len(body)] = "done"
    /\ \A i \in 1..(Len(body) - 1) : body[i] \in ChunkKinds

StreamOver == rpc \in {"closed", "aborted"}

\* C3: for an upstream body of n parseable data events followed by [DONE],
\* the relay of both routes emits exactly n consumer data events, one per
\* upstream event and in upstream order, then exactly one terminal marker.
C3_RelayExact ==
    (BodyIsEventsThenDone /\ StreamOver) =>
        /\ Len(sent) = Len(body)
        /\ \A i \in 1..(Len(body) - 1) : sent[i].type = "data" /\ sent[i].id = i
        /\ sent[Len(body)].type = "done"

\* C4: the consumer-side terminal marker is emitted only when the upstream
\* [DONE] sentinel was actually seen.
C4_DoneOnlyIfSeen ==
    (\E i \in 1..Len(sent) : sent[i].type = "done") => seen_done

\* Upstream chunks _stream_response has yielded so far.
Yielded == {j \in 1..pos : LineEffect(j) = "yield"}

\* C5: the relay does not buffer the whole upstream response: the first
\* consumer event of a chunk that is not the last line of the body is
\* emitted before the body has been completely received, and every chunk
\* is re-emitted before the next one is consumed.
C5_NoWholeBodyBuffering ==
    /\ [][(/\ Len(sent) = 0 /\ Len(sent') = 1
           /\ sent'[1].type = "data" /\ sent'[1].id < Len(body))
          => received < Len(body)]_vars
    /\ [](rpc = "relay" => Cardinality(Yielded) = Len(sent))

\* The consumer data events emitted so far.
DataEvents == {i \in 1..Len(sent) : sent[i].type = "data"}

\* C33: on /v1/messages every upstream chunk goes through
\* convert_openai_to_anthropic and gives exactly one consumer event, the
\* stream is never aborted by it (chunks whose choices carry a delta
\* included), and a chunk without "choices" is emitted as it came.
C33_MessagesChunkByChunk ==
    relay_route = "messages" =>
        /\ rpc # "aborted"
        /\ rpc \in {"relay", "closed"} =>
              Cardinality(DataEvents) = Cardinality(Yielded)
        /\ \A i \in DataEvents :
              body[sent[i].id] = "chunk_plain" => sent[i].form = "openai"

\* C34: nothing that follows the [DONE] sentinel in the upstream body is
\* consumed or emitted: every data event emitted is of a line before the
\* first sentinel, the relay never reads past the sentinel, and the
\* terminal marker is the last thing emitted.
C34_NothingAfterDone ==
    /\ \A i \in DataEvents : \A j \in 1..sent[i].id : body[j] # "done"
    /\ \A j \in 1..(pos - 1) : body[j] # "done"
    /\ \A i \in 1..Len(sent) : sent[i].type = "done" => i = Len(sent)

\* C34 witness: a body with a data event after the sentinel has been
\* relayed: the stream is closed at the sentinel, the events before it
\* and the marker are out, the event after it is not.
C34_Witness ==
    /\ rpc = "closed" /\ seen_done
    /\ pos < Len(body)
    /\ \E j \in (pos + 1)..Len(body) : body[j] \in ChunkKinds
    /\ Len(sent) >= 2
    /\ sent[Len(sent)].type = "done"

\* The upstream data events that parse and stand before the first
\* sentinel.
ParseableBeforeDone ==
    {j \in 1..Len(body) : /\ body[j] \in ChunkKinds
                          /\ \A k \in 1..j : body[k] # "done"}

\* C37: a line without the "data: " prefix and a data line that is not
\* JSON give no consumer event and do not end the stream: while
\* _stream_response is consumed and when it has ended, the data events
\* emitted are the parseable data events read so far that stand before
\* [DONE], one each and in upstream order; at the end their number is the
\* number of parseable data events before [DONE].
C37_BadLinesSkipped ==
    rpc \in {"relay", "closed"} =>
        /\ {sent[i].id : i \in DataEvents} =
              {j \in ParseableBeforeDone : j <= pos}
        /\ \A i, k \in DataEvents : i < k => sent[i].id < sent[k].id
        /\ rpc = "closed" =>
              Cardinality(DataEvents) = Cardinality(ParseableBeforeDone)

\* C37 witness: a chunk, a data line that is not JSON, a line without the
\* prefix and a chunk: both chunks have been relayed, then the marker.
C37_Witness ==
    /\ rpc = "closed"
    /\ Len(body) = 4
    /\ body[2] = "bad_json" /\ body[3] = "other"
    /\ Len(sent) = 3
    /\ sent[1].type = "data" /\ sent[1].id = 1
    /\ sent[2].type = "data" /\ sent[2].id = 4

\* ========================================================== SpecRefresh
\* setup_copilot_token, the refresh_token task it creates, and the readers
\* of the session token (copilot_headers), with an identity token in the
\* store.  The clock jumps from one due instant to the next; a timer that
\* is due fires before time goes on, and an exchange answers within
\* MaxLatency seconds.

MaxExchanges == 3     \* get_copilot_token calls followed
MaxLatency   == 1     \* longest token exchange, in seconds
MaxClock     == 4000  \* the clock of SpecRefresh stops here

\* refresh_interval = token_data["refresh_in"] - 60
REFRESH_LEAD == 60

\* The refresh_in values the upstream may return.
RefreshIns == {120, 300, 1800}

\* asyncio.sleep(d) with d <= 0 returns at once.
SleepFor(d) == IF d > 0 THEN d ELSE 0

\* Mutant of StoredToken: the wrong field of token_data is stored.
StoredToken_RefreshIn(token_data) == token_data.refresh_in

\* state.copilot_token = token_data["token"]
StoredToken(token_data) == token_data.token

\* The delay the refresh task sleeps after a refresh: the closure variable
\* refresh_interval, computed once from the first exchange.
NextSleep(new_token_data) == SleepFor(refresh_interval)

\* "Authorization": f"Bearer {state.copilot_token}"
copilot_headers == <<"Bearer", copilot_token>>

\* Mutant of OnRefreshFailure: the except branch reports the error and
\* does not re-raise; the while loop goes round again.
OnRefreshFailure_Swallowed(t) == [t EXCEPT !.pc = "sleeping", !.wake = 0,
                                           !.reported = TRUE]

\* except Exception as error: console.print(...); raise error
OnRefreshFailure(t) == [t EXCEPT !.pc = "failed", !.wake = NONE,
                                 !.reported = TRUE]

\* Mutant of create_task: no task is created.
create_task_None(t, wake) == t

\* asyncio.create_task(refresh_token()): one more task has been created;
\* it starts with its first sleep.
create_task(t, wake) ==
    [pc |-> "sleeping", wake |-> wake, reported |-> FALSE,
     created |-> t.created + 1]

\* Mutant of OnSetupFailure: run_server goes on after a failed exchange.
OnSetupFailure_GoOn == "models"

\* get_copilot_token raises inside setup_copilot_token: nothing catches it,
\* run_server ends.
OnSetupFailure == "failed"

\* The stored token is valid for refresh_in seconds from its exchange.
TokenExpiry == exch.at + exch.refresh_in

refreshFrame ==
    UNCHANGED <<gateVars_noTokenNow, relayVars, convVars, deviceVars,
                buildVars, github_token>>

\* setup_copilot_token is entered: the first get_copilot_token call.
SetupCall ==
    /\ spc = "start"
    /\ spc' = "setup"
    /\ exch' = [exch EXCEPT !.calls = @ + 1, !.since = now]
    /\ UNCHANGED <<now, copilot_token, refresh_interval, task, last_read>>
    /\ refreshFrame

\* A token exchange answers {token, refresh_in}.  In setup_copilot_token the
\* token is stored, refresh_interval is computed, the task is created (it
\* goes to sleep) and run_server goes on to cache_models; in the task the
\* token is stored and the task sleeps again.
ExchangeOK ==
    /\ exch.since # NONE
    /\ \E R \in RefreshIns :
        LET token_data == [token |-> exch.calls, refresh_in |-> R] IN
        /\ copilot_token' = StoredToken(token_data)
        /\ exch' = [exch EXCEPT !.since = NONE, !.token = token_data.token,
                                !.refresh_in = R, !.at = now]
        /\ IF spc = "setup"
           THEN /\ refresh_interval' = token_data.refresh_in - REFRESH_LEAD
                /\ task' = create_task(task,
                       now + SleepFor(token_data.refresh_in - REFRESH_LEAD))
                /\ spc' = "models"
           ELSE /\ task' = [task EXCEPT !.pc = "sleeping",
                                        !.wake = now + NextSleep(token_data)]
                /\ UNCHANGED <<refresh_interval, spc>>
    /\ UNCHANGED <<now, last_read>>
    /\ refreshFrame

\* A token exchange fails (HTTPError, network error).  The first one ends
\* run_server; one of the task goes to its except branch.
ExchangeFail ==
    /\ exch.since # NONE
    /\ IF spc = "setup"
       THEN /\ spc' = OnSetupFailure
            /\ exch' = [exch EXCEPT !.since = NONE]
            /\ UNCHANGED task
       ELSE /\ task' = OnRefreshFailure(task)
            /\ exch' = [exch EXCEPT !.since = NONE, !.bg_failed = TRUE]
            /\ UNCHANGED spc
    /\ UNCHANGED <<now, copilot_token, refresh_interval, last_read>>
    /\ refreshFrame

\* The sleep of the refresh task is over: the next get_copilot_token call.
RefreshCall ==
    /\ task.pc = "sleeping"
    /\ now >= task.wake
    /\ exch.since = NONE
    /\ exch.calls < MaxExchanges
    /\ task' = [task EXCEPT !.pc = "exchanging", !.wake = NONE]
    /\ exch' = [exch EXCEPT !.calls = @ + 1, !.since = now]
    /\ UNCHANGED <<now, copilot_token, refresh_interval, spc, last_read>>
    /\ refreshFrame

\* What get_models may return.
FetchedModels == {[data |-> <<>>]}

\* cache_models and the rest of run_server up to server.serve(): the model
\* list is fetched with the session header and stored; a failure is
\* printed and the list stays as it was.  Then the server accepts requests.
CacheModels ==
    /\ spc = "models"
    /\ spc' = "serving"
    /\ models' \in {models} \cup FetchedModels
    /\ UNCHANGED <<now, copilot_token, refresh_interval, task, exch, last_read>>
    /\ UNCHANGED <<gateVars_noTokenNow, relayVars, convVars, deviceVars,
                   bpc, payload, built, github_token>>

\* A request builder reads the session header while the server serves.
ReadHeader ==
    /\ spc = "serving"
    /\ last_read' = [taken |-> TRUE, header |-> copilot_headers,
                     expected |-> exch.token, inflight |-> exch.since # NONE,
                     expired |-> now >= TokenExpiry,
                     after_failure |-> exch.bg_failed]
    /\ UNCHANGED <<now, copilot_token, refresh_interval, spc, task, exch>>
    /\ refreshFrame

\* The instants at which something becomes due.
Deadlines ==
    (IF task.pc = "sleeping" THEN {task.wake} ELSE {})
    \cup (IF exch.token # NONE THEN {TokenExpiry} ELSE {})

RefreshTick ==
    /\ spc \in {"setup", "models", "serving"}
    /\ IF exch.since # NONE
       THEN /\ now + 1 - exch.since <= MaxLatency
            /\ now' = now + 1
       ELSE /\ ~(task.pc = "sleeping" /\ task.wake <= now)
            /\ \E t \in Deadlines :
                 /\ t > now
                 /\ \A u \in Deadlines : u > now => t <= u
                 /\ now' = t
    /\ now' <= MaxClock
    /\ UNCHANGED <<copilot_token, refresh_interval, spc, task, exch, last_read>>
    /\ refreshFrame

InitRefresh ==
    /\ now = 0
    /\ copilot_token = NONE
    /\ manual_approve = FALSE
    /\ rate_limit_wait = FALSE
    /\ rate_limit_seconds = NONE
    /\ last_request_timestamp = NONE
    /\ req = [r \in Requests |-> NewRequest]
    /\ last_admitted_at = NONE
    /\ RelayOff
    /\ github_token = 1
    /\ spc = "start"
    /\ refresh_interval = NONE
    /\ task = NoTask
    /\ exch = NoExchange
    /\ last_read = NoRead
    /\ ConvertOff
    /\ DeviceOff
    /\ BuildOff

NextRefresh ==
    \/ SetupCall
    \/ ExchangeOK
    \/ ExchangeFail
    \/ CacheModels
    \/ RefreshCall
    \/ ReadHeader
    \/ RefreshTick

SpecRefresh == InitRefresh /\ [][NextRefresh]_vars

\* ================================================ claims under SpecRefresh

\* C6: after every successful background refresh the next refresh is
\* scheduled from the refresh_in of that latest exchange: the task sleeps
\* (new refresh_in - 60) seconds from it.
C6_SleepsNewRefreshIn ==
    (task.pc = "sleeping" /\ exch.calls >= 2) =>
        task.wake - exch.at = exch.refresh_in - REFRESH_LEAD

\* C7: provided the token exchanges succeed, no request builder ever reads
\* a session token whose validity window has already passed.
C7_NeverReadsExpired ==
    (last_read.taken /\ ~last_read.after_failure) => ~last_read.expired

\* C8: after an exchange returned refresh_in = R the refresh task issues
\* its next exchange call R - 60 seconds later, one call, none earlier
\* (R = 120: 60 s later).
C8_NextCallAfterRMinus60 ==
    [][(exch.calls >= 1 /\ exch'.calls # exch.calls)
       => /\ exch'.calls = exch.calls + 1
          /\ now - exch.at = exch.refresh_in - REFRESH_LEAD]_vars

\* C9: when a background exchange fails the refresh task ends with the
\* error reported, no further exchange is attempted, and the store keeps
\* the token of the last successful exchange.
C9_FailureEndsLoop ==
    /\ [](exch.bg_failed =>
            /\ task.pc = "failed" /\ task.reported
            /\ exch.since = NONE
            /\ copilot_token = exch.token /\ copilot_token # NONE)
    /\ [][exch.bg_failed =>
            /\ exch'.calls = exch.calls
            /\ copilot_token' = copilot_token
            /\ task' = task]_vars

\* C9 witness: a background exchange has failed and a reader was served
\* the old token afterwards.
C9_Witness ==
    /\ exch.bg_failed
    /\ last_read.taken /\ last_read.after_failure
    /\ last_read.header = <<"Bearer", exch.token>>

\* C10: reading the session header never waits on a refresh: it is
\* possible in every serving state, and every reader gets "Bearer" with
\* the token of the most recently completed exchange, never an absent one.
C10_ReadersGetLastToken ==
    /\ spc = "serving" => ENABLED ReadHeader
    /\ last_read.taken =>
         /\ last_read.expected # NONE
         /\ last_read.header = <<"Bearer", last_read.expected>>

\* C10 witness: a reader was served while a background exchange was in
\* flight.
C10_Witness ==
    /\ last_read.taken /\ last_read.inflight
    /\ exch.calls >= 2 /\ exch.since # NONE
    /\ last_read.header = <<"Bearer", exch.token>>

\* The refresh task is there: created and not over.
TaskRuns == task.pc \in {"sleeping", "exchanging"}

\* C35 as stated: at most one refresh task exists at any time, and exactly
\* one exists once start-up has completed setup_copilot_token.
C35_ExactlyOneTask ==
    /\ task.created <= 1
    /\ spc \in {"models", "serving"} => task.created = 1 /\ TaskRuns

\* C35 amended: at most one refresh task is ever created, none before
\* setup_copilot_token has completed and none when its exchange failed;
\* once it has completed exactly one has been created, and that one runs
\* until a background exchange fails, after which there is none.
C35_OneTaskUntilFailure ==
    /\ task.created <= 1
    /\ spc \in {"start", "setup", "failed"} => task = NoTask
    /\ spc \in {"models", "serving"} =>
         /\ task.created = 1
         /\ TaskRuns <=> ~exch.bg_failed
         /\ task.pc = "failed" <=> exch.bg_failed

\* C35 witness: the server serves, the one task created has refreshed the
\* token once and has ended on the failure of its second exchange.
C35_Witness ==
    /\ spc = "serving"
    /\ task.created = 1 /\ task.pc = "failed"
    /\ exch.calls = 3 /\ exch.token = 2
    /\ exch.bg_failed

\* ========================================================== SpecConvert
\* The two translations of /v1/messages, each applied to one input:
\* convert_anthropic_to_openai to the consumer's request, and
\* convert_openai_to_anthropic to the upstream's non-streaming answer.

MaxMsgs    == 2       \* most messages of a request
MaxChoices == 2       \* most choices of an upstream answer
MaxTokens  == 2       \* largest usage counter

Roles == {"human", "user", "assistant"}
Texts == {"hi", "S"}

AnthropicMessages == [role : Roles, content : Texts]

MessageLists == UNION {[1..n -> AnthropicMessages] : n \in 0..MaxMsgs}

\* AnthropicRequest, with the system field left out or given ("" is a
\* string like any other).
AnthropicRequests ==
    {[model |-> "m", max_tokens |-> 1, stream |-> FALSE, messages |-> ms] :
        ms \in MessageLists}
    \cup {[model |-> "m", max_tokens |-> 1, stream |-> FALSE, messages |-> ms,
           system |-> sy] : ms \in MessageLists, sy \in {""} \cup Texts}

\* Message(role=..., content=...)
Message(role, content) == [role |-> role, content |-> content]

\* Mutant of MapRole: every role is passed on as it is.
MapRole_Unmapped(role) == role

\* role = msg.role; "human" becomes "user"
MapRole(role) == IF role = "human" THEN "user" ELSE role

\* convert_anthropic_to_openai: the system message when
\* anthropic_request.system is truthy (given and not empty), then one
\* message per input message; the other fields are copied.
convert_anthropic_to_openai(anthropic_request) ==
    LET system ==
            IF Has(anthropic_request, "system") /\ anthropic_request.system # ""
            THEN <<Message("system", anthropic_request.system)>>
            ELSE <<>>
        msgs == anthropic_request.messages
    IN [model |-> anthropic_request.model,
        messages |-> system \o [i \in 1..Len(msgs) |->
                                  Message(MapRole(msgs[i].role), msgs[i].content)],
        max_tokens |-> anthropic_request.max_tokens,
        temperature |-> Get(anthropic_request, "temperature", JsonNull),
        top_p |-> Get(anthropic_request, "top_p", JsonNull),
        stop |-> Get(anthropic_request, "stop_sequences", JsonNull),
        stream |-> anthropic_request.stream]

\* finish_reason as the upstream gives it; the key may also be missing.
FinishReasons == {"stop", "length", "tool_calls", JsonNull}

\* The message of a choice, with or without "content".
ChoiceMessages ==
    {[role |-> "assistant"]}
    \cup {[role |-> "assistant", content |-> t] : t \in Texts}

\* A choice of a completion (with or without "finish_reason"), or the
\* choice of a chunk, which has "delta" and no "message".
Choices ==
    {[message |-> msg, finish_reason |-> f] :
        msg \in ChoiceMessages, f \in FinishReasons}
    \cup {[message |-> msg] : msg \in ChoiceMessages}
    \cup {[delta |-> [content |-> "hi"]]}

ChoiceLists == UNION {[1..n -> Choices] : n \in 0..MaxChoices}

Usages == [prompt_tokens : 0..MaxTokens, completion_tokens : 0..MaxTokens]

\* What the upstream may answer: with and without "usage", and a dict
\* without "choices".
OpenAIResponses ==
    {[id |-> 1, model |-> "m", choices |-> cs] : cs \in ChoiceLists}
    \cup {[id |-> 1, model |-> "m", choices |-> cs, usage |-> u] :
            cs \in ChoiceLists, u \in Usages}
    \cup {[id |-> 1, model |-> "m"]}

convertFrame ==
    UNCHANGED <<gateVars, relayVars, refreshVars, deviceVars, buildVars>>

\* openai_payload = convert_anthropic_to_openai(request)
ConvertRequest ==
    /\ mpc = "request"
    /\ openai_payload' = convert_anthropic_to_openai(request)
    /\ mpc' = "done"
    /\ UNCHANGED <<request, response, anthropic_response>>
    /\ convertFrame

\* anthropic_response = convert_openai_to_anthropic(response); an exception
\* of it leaves the handler.
ConvertResponse ==
    /\ mpc = "response"
    /\ anthropic_response' = convert_openai_to_anthropic(response)
    /\ mpc' = IF Has(anthropic_response', "raise") THEN "raised" ELSE "done"
    /\ UNCHANGED <<request, openai_payload, response>>
    /\ convertFrame

InitConvert ==
    /\ now = 0
    /\ copilot_token = 1
    /\ manual_approve = FALSE
    /\ rate_limit_wait = FALSE
    /\ rate_limit_seconds = NONE
    /\ last_request_timestamp = NONE
    /\ req = [r \in Requests |-> NewRequest]
    /\ last_admitted_at = NONE
    /\ RelayOff
    /\ RefreshOff
    /\ DeviceOff
    /\ BuildOff
    /\ openai_payload = NoDict /\ anthropic_response = NoDict
    /\ \/ mpc = "request" /\ request \in AnthropicRequests /\ response = NoDict
       \/ mpc = "response" /\ request = NoDict /\ response \in OpenAIResponses

NextConvert ==
    \/ ConvertRequest
    \/ ConvertResponse

SpecConvert == InitConvert /\ [][NextConvert]_vars

\* ================================================ claims under SpecConvert

RequestConverted == mpc = "done" /\ Has(openai_payload, "messages")

\* The messages of the payload are the sys system messages followed by one
\* message per input message, in input order, content unchanged, role
\* "human" as "user".
MessagesFollow(sys) ==
    LET msgs == request.messages
        out  == openai_payload.messages
    IN /\ Len(out) = Len(sys) + Len(msgs)
       /\ \A i \in 1..Len(sys) : out[i] = sys[i]
       /\ \A i \in 1..Len(msgs) :
            /\ out[Len(sys) + i].content = msgs[i].content
            /\ out[Len(sys) + i].role =
                 IF msgs[i].role = "human" THEN "user" ELSE msgs[i].role

ResponseConverted == mpc = "done" /\ Has(anthropic_response, "stop_reason")

\* C15: stop_reason is "end_turn" if and only if the finish_reason of the
\* first choice is "stop", and "max_tokens" for every other finish reason,
\* a null or absent one included.
C15_StopReason ==
    ResponseConverted =>
        LET first == response.choices[1]
            stop  == Has(first, "finish_reason") /\ first.finish_reason = "stop"
        IN /\ stop <=> anthropic_response.stop_reason = "end_turn"
           /\ ~stop <=> anthropic_response.stop_reason = "max_tokens"

\* C15 witness: an answer whose first choice has no finish_reason, and whose
\* second one finished with "stop", has been given stop_reason max_tokens.
C15_Witness ==
    /\ ResponseConverted
    /\ Len(response.choices) = 2
    /\ ~Has(response.choices[1], "finish_reason")
    /\ Has(response.choices[2], "finish_reason")
    /\ response.choices[2].finish_reason = "stop"
    /\ anthropic_response.stop_reason = "max_tokens"

\* C16: the Anthropic message carries the content of the first choice as
\* its one text block, and the usage counters under their new names with
\* their values: input_tokens = usage.prompt_tokens, output_tokens =
\* usage.completion_tokens.
C16_ContentAndUsage ==
    ResponseConverted =>
        /\ Has(response.choices[1], "message")
        /\ Len(anthropic_response.content) = 1
        /\ anthropic_response.content[1].type = "text"
        /\ Has(response.choices[1].message, "content") =>
             anthropic_response.content[1].text =
                 response.choices[1].message.content
        /\ Has(response, "usage") =>
             /\ anthropic_response.usage.input_tokens =
                    response.usage.prompt_tokens
             /\ anthropic_response.usage.output_tokens =
                    response.usage.completion_tokens

\* C16 witness: an answer with two choices of different content and usage
\* {prompt_tokens 1, completion_tokens 2} has given the first content with
\* input_tokens 1 and output_tokens 2.
C16_Witness ==
    /\ ResponseConverted
    /\ Len(response.choices) = 2
    /\ Has(response.choices[2], "message")
    /\ Has(response.choices[2].message, "content")
    /\ Has(response.choices[1].message, "content")
    /\ response.choices[1].message.content = "hi"
    /\ response.choices[2].message.content = "S"
    /\ Has(response, "usage")
    /\ response.usage = [prompt_tokens |-> 1, completion_tokens |-> 2]
    /\ anthropic_response.content[1].text = "hi"
    /\ anthropic_response.usage = [input_tokens |-> 1, output_tokens |-> 2]

\* =========================================================== SpecDevice
\* setup_github_token: the stored identity token is read or, without one,
\* the device flow is run: get_device_code, then poll_access_token until
\* the provider returns a token, the code expires or the flow fails.  Time
\* goes in seconds; a sleep ends when it is due, and the provider answers
\* within MaxLatency seconds.

MaxPollInterval == 2  \* largest "interval" of a device response
MaxExpiresIn    == 6  \* largest "expires_in" of a device response

\* interval += 5
SLOW_DOWN_STEP == 5

ExpiresIns   == 1..MaxExpiresIn
AccessTokens == {2, 3}

\* The token file: NONE when there is no file, BLANK when its text is
\* empty after strip(), else the token it holds.
BLANK == 0
StoredTokens == {1}

\* read_github_token: None without a file, else the stripped text.
read_github_token(file) == file

\* `if existing_token:` -- None and the empty string are both false.
Truthy(existing_token) == existing_token \notin {NONE, BLANK}

\* Mutant of write_github_token: the file is left as it was.
write_github_token_Skipped(file, token) == file

\* write_github_token: the file holds the token, whatever it held.
write_github_token(file, token) == token

\* What the token endpoint may answer: an access token, one of the two
\* errors the loop goes on after, another error, a non-success status.
Answers == {"access_token", "authorization_pending", "slow_down",
            "access_denied", "non_success"}

\* Mutant of Expired: the code is given twice its lifetime.
Expired_Doubled(t, start_time, expires_in) == t - start_time > 2 * expires_in

\* asyncio.get_event_loop().time() - start_time > expires_in
Expired(t, start_time, expires_in) == t - start_time > expires_in

\* The top of the while loop: the expiry check, then the token request.
LoopTop(p, expires_in) ==
    IF Expired(now, p.start_time, expires_in)
    THEN [pc |-> "failed",
          poll |-> [p EXCEPT !.wake = NONE, !.error = "Device code expired"]]
    ELSE [pc |-> "polling",
          poll |-> [p EXCEPT !.wake = NONE, !.requests = @ + 1, !.since = now]]

\* Mutant of AfterPending: the loop goes round without sleeping.
AfterPending_NoSleep(p) == [p EXCEPT !.pendings = @ + 1, !.wake = now]

\* authorization_pending: await asyncio.sleep(interval); continue
AfterPending(p) == [p EXCEPT !.pendings = @ + 1, !.wake = now + p.interval]

\* Mutant of AfterSlowDown: the loop sleeps and the interval stays.
AfterSlowDown_SameInterval(p) ==
    [p EXCEPT !.slow_downs = @ + 1, !.wake = now + p.interval]

\* slow_down: interval += 5; await asyncio.sleep(interval); continue
AfterSlowDown(p) ==
    [p EXCEPT !.slow_downs = @ + 1,
              !.interval = @ + SLOW_DOWN_STEP,
              !.wake = now + p.interval + SLOW_DOWN_STEP]

\* raise HTTPError(...): setup_github_token prints it and raises it again.
PollFailed(p, message) == [p EXCEPT !.error = message]

deviceFrame ==
    UNCHANGED <<cfgVars, last_request_timestamp, req, last_admitted_at,
                relayVars, convVars, buildVars,
                spc, refresh_interval, task, exch, last_read>>

\* setup_github_token up to its first remote call: a stored token that is
\* not empty (unless force is set) is taken as it is, else get_device_code
\* is called.  (log_user swallows its own failures.)
SetupGithubToken ==
    /\ gpc = "start"
    /\ LET existing_token == read_github_token(token_file) IN
       IF ~poll.forced /\ Truthy(existing_token)
       THEN /\ github_token' = existing_token
            /\ gpc' = "done"
            /\ UNCHANGED poll
       ELSE /\ gpc' = "device_code"
            /\ poll' = [poll EXCEPT !.since = now, !.code_requests = @ + 1]
            /\ UNCHANGED github_token
    /\ UNCHANGED <<now, token_file, device_response>>
    /\ deviceFrame

\* get_device_code answers.  On success poll_access_token is entered: it
\* reads interval and expires_in, takes start_time and goes to the top of
\* its loop.
DeviceCodeAnswer ==
    /\ gpc = "device_code"
    /\ \/ /\ gpc' = "failed"
          /\ poll' = PollFailed(poll, "Failed to get device code")
          /\ UNCHANGED device_response
       \/ \E i \in 1..MaxPollInterval, e \in ExpiresIns :
            LET top == LoopTop([poll EXCEPT !.interval = i, !.start_time = now], e)
            IN /\ device_response' = [interval |-> i, expires_in |-> e]
               /\ gpc' = top.pc
               /\ poll' = top.poll
    /\ UNCHANGED <<now, token_file, github_token>>
    /\ deviceFrame

\* The token endpoint answers the request in flight.
PollAnswer ==
    /\ gpc = "polling"
    /\ \E answer \in Answers, access_token \in AccessTokens :
         LET p == [poll EXCEPT !.answered_at = now, !.last_answer = answer] IN
         CASE answer = "access_token" ->
                \* return data["access_token"]: setup_github_token goes on
                \* to await write_github_token(token)
                /\ poll' = [p EXCEPT !.token = access_token]
                /\ gpc' = "writing"
                /\ UNCHANGED <<token_file, github_token>>
           [] answer = "authorization_pending" ->
                /\ poll' = AfterPending(p)
                /\ gpc' = "sleeping"
                /\ UNCHANGED <<token_file, github_token>>
           [] answer = "slow_down" ->
                /\ poll' = AfterSlowDown(p)
                /\ gpc' = "sleeping"
                /\ UNCHANGED <<token_file, github_token>>
           [] answer = "access_denied" ->
                /\ poll' = PollFailed(p, "OAuth error")
                /\ gpc' = "failed"
                /\ UNCHANGED <<token_file, github_token>>
           [] answer = "non_success" ->
                /\ poll' = PollFailed(p, "Failed to poll access token")
                /\ gpc' = "failed"
                /\ UNCHANGED <<token_file, github_token>>
    /\ UNCHANGED <<now, device_response>>
    /\ deviceFrame

\* await write_github_token(token): the file is written, or the write
\* fails and setup_github_token raises.
WriteToken ==
    /\ gpc = "writing"
    /\ \/ /\ token_file' = write_github_token(token_file, poll.token)
          /\ gpc' = "storing"
          /\ UNCHANGED poll
       \/ /\ gpc' = "failed"
          /\ poll' = PollFailed(poll, "OSError")
          /\ UNCHANGED token_file
    /\ UNCHANGED <<now, device_response, github_token>>
    /\ deviceFrame

\* state.github_token = token, after the write has returned.
StoreToken ==
    /\ gpc = "storing"
    /\ github_token' = poll.token
    /\ gpc' = "done"
    /\ UNCHANGED <<now, token_file, device_response, poll>>
    /\ deviceFrame

\* The sleep of the loop is over: back to the top of the loop.
PollWake ==
    /\ gpc = "sleeping"
    /\ now >= poll.wake
    /\ LET top == LoopTop(poll, device_response.expires_in)
       IN gpc' = top.pc /\ poll' = top.poll
    /\ UNCHANGED <<now, token_file, device_response, github_token>>
    /\ deviceFrame

\* A second passes: while an answer is awaited (not longer than
\* MaxLatency), or while the loop sleeps (not beyond its wake-up).
DeviceTick ==
    /\ \/ gpc \in {"device_code", "polling"} /\ now + 1 - poll.since <= MaxLatency
       \/ gpc = "sleeping" /\ now < poll.wake
    /\ now' = now + 1
    /\ UNCHANGED <<deviceVars, github_token>>
    /\ deviceFrame

InitDevice ==
    /\ now = 0
    /\ copilot_token = NONE
    /\ manual_approve = FALSE
    /\ rate_limit_wait = FALSE
    /\ rate_limit_seconds = NONE
    /\ last_request_timestamp = NONE
    /\ req = [r \in Requests |-> NewRequest]
    /\ last_admitted_at = NONE
    /\ RelayOff
    /\ RefreshOff
    /\ ConvertOff
    /\ BuildOff
    /\ gpc = "start"
    /\ token_file \in {NONE, BLANK} \cup StoredTokens
    /\ device_response = NoDeviceResponse
    /\ \E force \in BOOLEAN : poll = [NoPoll EXCEPT !.forced = force]

NextDevice ==
    \/ SetupGithubToken
    \/ DeviceCodeAnswer
    \/ PollAnswer
    \/ WriteToken
    \/ StoreToken
    \/ PollWake
    \/ DeviceTick

SpecDevice == InitDevice /\ [][NextDevice]_vars

\* The scheduling: the clock goes on, a due sleep ends, and every request
\* is answered.
SpecDeviceFair ==
    /\ SpecDevice
    /\ WF_vars(SetupGithubToken) /\ WF_vars(DeviceCodeAnswer)
    /\ WF_vars(PollAnswer) /\ WF_vars(PollWake) /\ WF_vars(DeviceTick)
    /\ WF_vars(WriteToken) /\ WF_vars(StoreToken)

\* ================================================= claims under SpecDevice

\* C19: when the provider answers authorization_pending k times and then
\* returns an access token, poll_access_token has made exactly k + 1 token
\* requests, each one after the first issued the provider's interval after
\* the answer before it, and setup_github_token ends with
\* state.github_token the returned token.
C19_PendingThenToken ==
    /\ []((gpc = "done" /\ poll.last_answer = "access_token"
                        /\ poll.slow_downs = 0)
          => /\ poll.requests = poll.pendings + 1
             /\ github_token = poll.token /\ github_token # NONE)
    /\ [][(/\ poll'.requests = poll.requests + 1
           /\ poll.requests >= 1
           /\ poll.slow_downs = 0)
          => /\ now - poll.answered_at = device_response.interval
             /\ now - poll.since >= device_response.interval]_vars

\* C19 witness: two authorization_pending answers and then the token: three
\* requests, and the token is in the store.
C19_Witness ==
    /\ gpc = "done"
    /\ poll.pendings = 2 /\ poll.slow_downs = 0
    /\ poll.last_answer = "access_token"
    /\ poll.requests = 3
    /\ github_token = poll.token /\ github_token \in AccessTokens

PollOver == gpc \in {"done", "failed"}

\* C20: the poll loop ends.  When the provider has only answered
\* authorization_pending or slow_down it ends with "Device code expired",
\* after expires_in has elapsed; no token request is issued once more than
\* expires_in has elapsed since the loop began; any other error of the
\* provider and any non-success status end it with an error; and once it
\* is over nothing further is requested.
C20_PollTerminates ==
    /\ <>PollOver
    /\ []((gpc = "failed" /\ poll.last_answer \in {"authorization_pending",
                                                  "slow_down"})
          => /\ poll.error = "Device code expired"
             /\ now - poll.start_time > device_response.expires_in)
    /\ [][poll'.requests # poll.requests
          => /\ poll'.requests = poll.requests + 1
             /\ now - poll'.start_time <= device_response'.expires_in]_vars
    /\ [][(gpc = "polling" /\ poll'.last_answer \in {"access_denied",
                                                    "non_success"})
          => gpc' = "failed" /\ poll'.error # "none"]_vars
    /\ [][PollOver => poll' = poll /\ gpc' = gpc]_vars

\* C20 witness: after a slow_down and an authorization_pending answer the
\* loop has ended with "Device code expired".
C20_Witness ==
    /\ gpc = "failed"
    /\ poll.error = "Device code expired"
    /\ poll.slow_downs >= 1 /\ poll.pendings >= 1
    /\ poll.requests = poll.slow_downs + poll.pendings
    /\ now - poll.start_time > device_response.expires_in

\* C32: every slow_down answer adds 5 seconds to the poll interval and the
\* loop goes on (it sleeps the new interval and comes back to the top of
\* the loop); the increases add up and stay for the rest of the flow: the
\* interval is the one of the device code plus 5 for every slow_down so
\* far, it never decreases, and an authorization_pending answer leaves it
\* as it is and sleeps it.
C32_SlowDownAddsFive ==
    /\ [][poll'.slow_downs # poll.slow_downs
          => /\ poll'.slow_downs = poll.slow_downs + 1
             /\ poll'.interval = poll.interval + 5
             /\ gpc' = "sleeping"
             /\ poll'.wake = now + poll'.interval]_vars
    /\ [][poll'.pendings # poll.pendings
          => /\ poll'.interval = poll.interval
             /\ gpc' = "sleeping"
             /\ poll'.wake = now + poll.interval]_vars
    /\ [][gpc = "sleeping" /\ gpc' # "sleeping"
          => \/ gpc' = "polling" /\ poll'.requests = poll.requests + 1
             \/ gpc' = "failed" /\ poll'.error = "Device code expired"]_vars
    /\ [][poll.interval # NONE => poll'.interval >= poll.interval]_vars
    /\ [](poll.interval # NONE
          => poll.interval = device_response.interval + 5 * poll.slow_downs)

\* C32 witness: after a slow_down answer and a later request answered
\* authorization_pending, the loop sleeps the increased interval.
C32_Witness ==
    /\ gpc = "sleeping"
    /\ poll.slow_downs = 1 /\ poll.pendings = 1
    /\ poll.last_answer = "authorization_pending"
    /\ poll.requests = 2
    /\ poll.interval = device_response.interval + 5
    /\ poll.wake = poll.answered_at + device_response.interval + 5

\* ============================================================ SpecStart
\* The commands that need the identity token, run one after another on one
\* machine: every run starts from an empty store and from the token file
\* the runs before it left.  "start" is run_server, with or without the
\* --github-token option; "auth" calls setup_github_token(force=True).  A
\* run may be ended at any point.

Commands == {"start", "auth"}

\* A token the operator passes with --github-token.
ProvidedTokens == {4}

\* run_server from `if github_token:` to the call of setup_github_token,
\* and run_auth to the same call.
RunCommand ==
    /\ gpc = "boot"
    /\ \E command \in Commands, option \in {NONE} \cup ProvidedTokens :
         /\ command = "auth" => option = NONE
         /\ IF command = "start" /\ option # NONE
            THEN /\ github_token' = option
                 /\ gpc' = "done"
                 /\ UNCHANGED poll
            ELSE /\ gpc' = "start"
                 /\ poll' = [poll EXCEPT !.forced = (command = "auth")]
                 /\ UNCHANGED github_token
    /\ UNCHANGED <<now, token_file, device_response>>
    /\ deviceFrame

\* The process is over and a new one begins: only the file is kept.
Restart ==
    /\ gpc # "boot"
    /\ gpc' = "boot"
    /\ now' = 0
    /\ github_token' = NONE
    /\ poll' = NoPoll
    /\ device_response' = NoDeviceResponse
    /\ UNCHANGED token_file
    /\ deviceFrame

InitStart ==
    /\ now = 0
    /\ copilot_token = NONE
    /\ manual_approve = FALSE
    /\ rate_limit_wait = FALSE
    /\ rate_limit_seconds = NONE
    /\ last_request_timestamp = NONE
    /\ req = [r \in Requests |-> NewRequest]
    /\ last_admitted_at = NONE
    /\ RelayOff
    /\ RefreshOff
    /\ ConvertOff
    /\ BuildOff
    /\ gpc = "boot"
    /\ token_file \in {NONE, BLANK} \cup StoredTokens
    /\ device_response = NoDeviceResponse
    /\ poll = NoPoll

NextStart ==
    \/ RunCommand
    \/ NextDevice
    \/ Restart

SpecStart == InitStart /\ [][NextStart]_vars

\* ================================================== claims under SpecStart

\* C21: the device flow runs only when no identity token is available: a
\* device-code request is issued only when the file holds no token (or
\* force is set) and the store holds none; the token a flow obtained is in
\* the file by the time it is in the store; and a run that finds a stored
\* non-empty token, force not set, puts that token in the store and
\* issues no device-code request and no poll request (unless it is ended
\* first).
C21_FlowOnlyWithoutToken ==
    /\ [][poll'.code_requests > poll.code_requests
          => /\ poll.forced \/ ~Truthy(token_file)
             /\ github_token = NONE]_vars
    /\ []((poll.token # NONE /\ github_token = poll.token)
          => token_file = github_token)
    /\ [][(gpc = "start" /\ gpc' # "boot"
           /\ ~poll.forced /\ Truthy(token_file))
          => /\ gpc' = "done"
             /\ github_token' = token_file
             /\ poll'.code_requests = 0 /\ poll'.requests = 0]_vars
    /\ [][(gpc = "done" /\ gpc' = "done")
          => /\ poll'.code_requests = poll.code_requests
             /\ poll'.requests = poll.requests]_vars

\* C21 witness: a later run: the token in the file is one an earlier
\* device flow obtained, this run has taken it into the store and has
\* issued no device-code request and no poll request.
C21_Witness ==
    /\ gpc = "done"
    /\ ~poll.forced
    /\ token_file \in AccessTokens
    /\ github_token = token_file
    /\ poll.code_requests = 0 /\ poll.requests = 0

\* ============================================================ SpecBuild
\* One /chat/completions request that is past the gate: handle_completion
\* sets the default ceiling from the cached model list, and
\* create_chat_completions builds the upstream request and posts it.  The
\* payload, the cache and the session token are the inputs.

BuildRoles == {"user", "assistant", "tool"}

\* Message.content: a string, None, or a list of ContentPart, of which
\* the types are kept.
Contents ==
    {[kind |-> "str", parts |-> <<>>],
     [kind |-> "none", parts |-> <<>>],
     [kind |-> "list", parts |-> <<"text">>],
     [kind |-> "list", parts |-> <<"text", "image_url">>]}

ChatMessages == [role : BuildRoles, content : Contents]

ChatMessageLists == UNION {[1..n -> ChatMessages] : n \in 0..MaxMsgs}

ModelIds == {"x", "y"}

\* The payloads: the consumer asks for model "x", with or without max_tokens.
ChatCompletionsPayloads ==
    [model : {"x"}, messages : ChatMessageLists, max_tokens : {NONE, 7}]

\* The "limits" of a model, with and without max_output_tokens.
Limits == {[max_prompt_tokens |-> 4],
           [max_prompt_tokens |-> 4, max_output_tokens |-> 8]}

\* The entries of the model list, as the upstream gives them.
Descriptors ==
    {[id |-> i, capabilities |-> [supports |-> [vision |-> v], limits |-> l]] :
        i \in ModelIds, v \in BOOLEAN, l \in Limits}

\* State.models: None (the list was never fetched) or {"data": [...]}.
ModelCaches ==
    {NoDict}
    \cup {[data |-> <<>>]}
    \cup {[data |-> <<d>>] : d \in Descriptors}
    \cup {[data |-> <<d, e>>] : d, e \in Descriptors}

\* next((model for model in data if model["id"] == model_id), None)
selected_model(data, model_id) ==
    IF \E i \in 1..Len(data) : data[i].id = model_id
    THEN data[CHOOSE i \in 1..Len(data) :
                /\ data[i].id = model_id
                /\ \A j \in 1..(i - 1) : data[j].id # model_id]
    ELSE NoDict

\* Mutant of default_max_tokens: the ceiling is never filled in.
default_max_tokens_Unset(p, cache) == p

\* handle_completion, "Set default max_tokens if not provided": the
\* payload after it, or the KeyError of the subscript.
default_max_tokens(p, cache) ==
    IF p.max_tokens = NONE /\ cache # NoDict
    THEN LET selected == selected_model(cache.data, p.model) IN
         IF selected # NoDict
         THEN IF Has(selected.capabilities.limits, "max_output_tokens")
              THEN [p EXCEPT !.max_tokens =
                        selected.capabilities.limits.max_output_tokens]
              ELSE Raise("KeyError")
         ELSE p
    ELSE p

\* Mutant of enable_vision: any content-part list counts.
enable_vision_AnyList(messages) ==
    \E i \in 1..Len(messages) : messages[i].content.kind = "list"

\* enable_vision: some message has a list content with an image_url part.
enable_vision(messages) ==
    \E i \in 1..Len(messages) :
        /\ messages[i].content.kind = "list"
        /\ \E k \in 1..Len(messages[i].content.parts) :
              messages[i].content.parts[k] = "image_url"

\* Mutant of is_agent_call: tool turns are not counted.
is_agent_call_AssistantOnly(messages) ==
    \E i \in 1..Len(messages) : messages[i].role = "assistant"

\* is_agent_call: some message has role assistant or tool.
is_agent_call(messages) ==
    \E i \in 1..Len(messages) : messages[i].role \in {"assistant", "tool"}

\* copilot_headers(state, vision): the Authorization header, two of the
\* fixed ones, and the vision header when asked for.
copilot_headers_vision(vision) ==
    LET headers == ("Authorization" :> copilot_headers)
                   @@ ("content-type" :> "application/json")
                   @@ ("openai-intent" :> "conversation-panel")
    IN IF vision THEN headers @@ ("copilot-vision-request" :> "true")
                 ELSE headers

\* payload.dict(exclude_none=True): what is None is left out.
MessageJson(msg) ==
    IF msg.content.kind = "none" THEN [role |-> msg.role]
                                 ELSE [role |-> msg.role, content |-> msg.content]

PayloadJson(p) ==
    LET messages == [i \in 1..Len(p.messages) |-> MessageJson(p.messages[i])]
    IN IF p.max_tokens = NONE
       THEN [model |-> p.model, messages |-> messages]
       ELSE [model |-> p.model, messages |-> messages,
             max_tokens |-> p.max_tokens]

\* create_chat_completions up to client.post.
create_chat_completions(p) ==
    IF copilot_token = NONE
    THEN [NotBuilt EXCEPT !.exc = "ValueError"]
    ELSE [exc |-> "none", sent |-> TRUE,
          headers |-> copilot_headers_vision(enable_vision(p.messages))
                      @@ ("X-Initiator" :> IF is_agent_call(p.messages)
                                           THEN "agent" ELSE "user"),
          json |-> PayloadJson(p)]

buildFrame ==
    UNCHANGED <<gateVars, relayVars, refreshVars, convVars, deviceVars>>

\* handle_completion from the default ceiling to the upstream post.
HandleCompletion ==
    /\ bpc = "ready"
    /\ LET p == default_max_tokens(payload, models) IN
       built' = IF Has(p, "raise") THEN [NotBuilt EXCEPT !.exc = p.raise]
                                   ELSE create_chat_completions(p)
    /\ bpc' = "done"
    /\ UNCHANGED <<payload, models>>
    /\ buildFrame

InitBuild ==
    /\ now = 0
    /\ copilot_token \in {NONE, 1}
    /\ manual_approve = FALSE
    /\ rate_limit_wait = FALSE
    /\ rate_limit_seconds = NONE
    /\ last_request_timestamp = NONE
    /\ req = [r \in Requests |-> NewRequest]
    /\ last_admitted_at = NONE
    /\ RelayOff
    /\ RefreshOff
    /\ ConvertOff
    /\ DeviceOff
    /\ bpc = "ready"
    /\ payload \in ChatCompletionsPayloads
    /\ models \in ModelCaches
    /\ built = NotBuilt

NextBuild == HandleCompletion

SpecBuild == InitBuild /\ [][NextBuild]_vars

\* ================================================== claims under SpecBuild

\* Some message of the payload has a content-part list with an image part.
HasImagePart ==
    \E i \in 1..Len(payload.messages) :
        \E k \in 1..Len(payload.messages[i].content.parts) :
            payload.messages[i].content.parts[k] = "image_url"

\* The positions of the cached descriptors of the requested model.
Matching ==
    IF models = NoDict THEN {}
    ELSE {i \in 1..Len(models.data) : models.data[i].id = payload.model}

\* C22: a request with an image part for a model whose descriptor lacks
\* vision support fails with UnsupportedCapability and nothing is sent
\* upstream.
C22_UnsupportedVisionRefused ==
    (/\ bpc = "done"
     /\ HasImagePart
     /\ Matching # {}
     /\ \A i \in Matching : ~models.data[i].capabilities.supports.vision)
    => built.exc = "UnsupportedCapability" /\ ~built.sent

\* C23: when the cached list has the requested model without a
\* max_output_tokens limit and the consumer gave no max_tokens, the
\* request does not fail in the gateway: it is sent upstream with no
\* max_tokens.
C23_MissingLimitProceeds ==
    (/\ bpc = "done"
     /\ copilot_token # NONE
     /\ payload.max_tokens = NONE
     /\ Matching # {}
     /\ \A i \in Matching :
           ~Has(models.data[i].capabilities.limits, "max_output_tokens"))
    => /\ built.exc = "none"
       /\ built.sent
       /\ ~Has(built.json, "max_tokens")

\* C24: when the consumer gave no max_tokens, the max_tokens sent upstream
\* is the max_output_tokens of the (first) cached descriptor with the
\* requested model id; with no such descriptor, or no cached list, the
\* upstream payload has no max_tokens.
C24_DefaultCeiling ==
    (bpc = "done" /\ copilot_token # NONE /\ payload.max_tokens = NONE)
    => /\ \A i \in Matching :
            (/\ \A j \in Matching : i <= j
             /\ Has(models.data[i].capabilities.limits, "max_output_tokens"))
            => /\ built.sent
               /\ Has(built.json, "max_tokens")
               /\ built.json.max_tokens =
                     models.data[i].capabilities.limits.max_output_tokens
       /\ Matching = {} => built.sent /\ ~Has(built.json, "max_tokens")

\* C24 witness: the consumer gave no max_tokens, the second entry of the
\* cached list is the requested model, and its limit went upstream; or
\* the list has no such entry and the sent payload has no max_tokens.
C24_Witness ==
    /\ bpc = "done" /\ built.sent /\ payload.max_tokens = NONE
    /\ Matching = {2}
    /\ Has(built.json, "max_tokens")
    /\ built.json.max_tokens = 8

\* C25: the upstream request has the header copilot-vision-request: true
\* exactly when some message has a content-part list with an image_url
\* part.
C25_VisionHeader ==
    (bpc = "done" /\ built.sent)
    => /\ HasImagePart <=> Has(built.headers, "copilot-vision-request")
       /\ HasImagePart => built.headers["copilot-vision-request"] = "true"

\* C25 witness: a string message and a message with a text and an image
\* part have gone upstream with the vision header.
C25_Witness ==
    /\ bpc = "done" /\ built.sent
    /\ Len(payload.messages) = 2
    /\ payload.messages[1].content.kind = "str"
    /\ payload.messages[2].content.parts = <<"text", "image_url">>
    /\ Has(built.headers, "copilot-vision-request")

\* C26: the X-Initiator header of the upstream request is "agent" exactly
\* when some message has role assistant or tool, and "user" otherwise.
C26_Initiator ==
    (bpc = "done" /\ built.sent)
    => built.headers["X-Initiator"] =
          IF \E i \in 1..Len(payload.messages) :
                \/ payload.messages[i].role = "assistant"
                \/ payload.messages[i].role = "tool"
          THEN "agent" ELSE "user"

\* C26 witness: a user turn followed by a tool turn has gone upstream as
\* an agent call.
C26_Witness ==
    /\ bpc = "done" /\ built.sent
    /\ Len(payload.messages) = 2
    /\ payload.messages[1].role = "user"
    /\ payload.messages[2].role = "tool"
    /\ built.headers["X-Initiator"] = "agent"

\* ============================================================== SpecRun
\* One run of run_server: the identity token (option, file or device
\* flow), setup_copilot_token, cache_models, and the server with the
\* readers of the session token.  The run is followed to the first
\* requests served; what the refresh task does later is SpecRefresh.

\* run_server, lines 48-52 (the auth command is not this one).
RunServer == RunCommand /\ ~poll'.forced

\* `await setup_copilot_token()` comes after the identity step returned.
RunSetupCall == gpc = "done" /\ SetupCall

InitRun ==
    /\ now = 0
    /\ copilot_token = NONE
    /\ manual_approve = FALSE
    /\ rate_limit_wait = FALSE
    /\ rate_limit_seconds = NONE
    /\ last_request_timestamp = NONE
    /\ req = [r \in Requests |-> NewRequest]
    /\ last_admitted_at = NONE
    /\ RelayOff
    /\ ConvertOff
    /\ BuildOff
    /\ github_token = NONE
    /\ spc = "start"
    /\ refresh_interval = NONE
    /\ task = NoTask
    /\ exch = NoExchange
    /\ last_read = NoRead
    /\ gpc = "boot"
    /\ token_file \in {NONE, BLANK} \cup StoredTokens
    /\ device_response = NoDeviceResponse
    /\ poll = NoPoll

NextRun ==
    \/ RunServer
    \/ NextDevice
    \/ RunSetupCall
    \/ ExchangeOK
    \/ ExchangeFail
    \/ CacheModels
    \/ ReadHeader

SpecRun == InitRun /\ [][NextRun]_vars

\* ==================================================== claims under SpecRun

\* C39: the start-up steps of run_server come in order: a session-token
\* exchange is only issued with the identity token in the store; the
\* model list is fetched, and the server accepts requests, only with the
\* session token in the store, and the steps follow each other one way;
\* when the identity step or the first exchange fails, nothing further
\* is done and no request is ever served.
C39_StartupOrdered ==
    /\ [][exch'.calls > exch.calls
          => gpc = "done" /\ github_token # NONE]_vars
    /\ [](spc \in {"models", "serving"}
          => copilot_token # NONE /\ github_token # NONE)
    /\ [][spc' # spc
          => <<spc, spc'>> \in {<<"start", "setup">>, <<"setup", "models">>,
                                <<"setup", "failed">>,
                                <<"models", "serving">>}]_vars
    /\ [](last_read.taken
          => spc = "serving" /\ last_read.header[2] # NONE)
    /\ [](gpc = "failed" => spc = "start" /\ exch.calls = 0)
    /\ [](spc = "failed" => copilot_token = NONE /\ models = NoDict)

\* C39 witness: the identity token came from the device flow, the
\* session token from the exchange that followed, the model list was
\* fetched and a request has been served with that session token.
C39_Witness ==
    /\ gpc = "done" /\ poll.requests >= 1
    /\ github_token = poll.token /\ github_token \in AccessTokens
    /\ spc = "serving"
    /\ exch.calls = 1 /\ copilot_token = exch.token
    /\ models \in FetchedModels
    /\ last_read.taken /\ last_read.header = <<"Bearer", copilot_token>>

====
